---------------------------- MODULE Spec2Model ----------------------------
(***************************************************************************)
(* A model of the STOMP client library mrwill84/mq:                        *)
(*   - connPeer (stomp/conn.go): Send, close, the reader task readInto,    *)
(*     the writer task writeFrom and drain;                                *)
(*   - Client (stomp/client.go): Connect, Send, SendJSON, Subscribe,       *)
(*     Unsubscribe, Ack, Nack, Disconnect, sendMessage, the listen task,   *)
(*     handleReceipt, handleMessage, incr;                                 *)
(*   - the message pool (NewMessage / Release).                            *)
(* Go channels are modelled by their rendezvous: a sender on an unbuffered *)
(* channel waits at its send statement until a receiver takes the value;   *)
(* a send on, or a second close of, a closed channel is a panic, and an    *)
(* unrecovered panic ends the program.                                     *)
(***************************************************************************)
EXTENDS Naturals, Integers, Sequences, FiniteSets, TLC

\* ------------------------------------------------------------------ bounds
NTasks == 2        \* caller tasks
MaxOps == 2        \* operations one task starts on a bare peer
NMsg == 2          \* Message objects that can be alive at once
MaxIn == 2         \* inbound frames the remote end sends to a client
MaxInPeer == 1     \* inbound frames the remote end sends to a bare peer
MaxCalls == 1      \* operations one caller task starts on a client
MaxTicks == 1      \* ticks (heartbeat or flush) the writer's tickers deliver

Tasks == 1..NTasks
Msgs == 1..NMsg
NoMsg == 0
NoChan == <<0, 0>>
NoTag == <<0, 0>>
\* The receipt ids WithReceipt draws (rand.Int63): one per call, no two
\* calls drawing the same.  NoReceipt is the empty Receipt field.
Receipts == Tasks \X (1..MaxCalls)
NoReceipt == <<0, 0>>
Chans == {"done", "incoming", "outgoing"}

VARIABLES
    closed,     \* connPeer: which of done / incoming / outgoing is closed
    panic,      \* the unrecovered panic that ended the program, or "none"
    rd,         \* reader task: [pc, m, armed]; armed: a read deadline is set
    inLeft,     \* inbound frames the remote end may still send
    wr,         \* writer task: [pc, m]
    wbuf,       \* c.writer: frames (and heartbeats) buffered, not yet flushed
    wire,       \* frames flushed to the socket
    werr,       \* c.writer's sticky write error
    connClosed, \* how many times c.conn.Close() ran
    ticksLeft,  \* ticker deliveries left
    msg,        \* the Message objects: their fields
    pool,       \* the Message objects lying in the pool
    pc, op, tm, tid, tch, terr,  \* caller tasks: position and locals
    opsLeft,    \* operations a caller task may still start
    subs,       \* Client.subs: the ids that have a handler
    wait,       \* Client.wait: receipt id -> waiter channel (NoChan: no entry)
    rcbuf,      \* the waiter channels holding their one buffered token
    seq,        \* Client.seq
    doneCh,     \* Client.done: the errors buffered on it (capacity 1)
    ls,         \* listen task: [pc, m, ch, late]
    hist        \* history: what happened, for stating the claims

peerVars == <<closed, rd, inLeft, wr, wbuf, wire, werr, connClosed, ticksLeft>>
poolVars == <<msg, pool>>
taskVars == <<pc, op, tm, tid, tch, terr, opsLeft>>
clientVars == <<subs, wait, rcbuf, seq, doneCh, ls>>
vars == <<closed, panic, rd, inLeft, wr, wbuf, wire, werr, connClosed, ticksLeft, msg, pool, pc, op, tm, tid, tch, terr, opsLeft, subs, wait,
          rcbuf, seq, doneCh, ls, hist>>

\* ------------------------------------------------------------ message pool
\* A Message as the pool hands it out: every field empty.
ZeroMsg == [method |-> "", receipt |-> NoReceipt, id |-> "", subs |-> "", tag |-> NoTag]

\* The objects some task still holds a pointer to.
Referenced ==
    {tm[t] : t \in Tasks} \cup {rd.m, wr.m, ls.m}

\* The objects NewMessage may return: one lying in the pool (whoever still
\* holds a pointer to it shares it from then on), or a fresh allocation,
\* which is an object nobody refers to.
FreshMsgs == {m \in Msgs : m \notin pool /\ m \notin Referenced}
NewMessageChoices ==
    pool \cup (IF FreshMsgs = {} THEN {} ELSE {CHOOSE m \in FreshMsgs : \A x \in FreshMsgs : m <= x})

\* An object that nobody refers to and that is not in the pool is garbage:
\* its fields can no longer be read (a fresh allocation is zeroed).
Collected(refs, pooled) ==
    [m \in Msgs |-> IF m \in refs \cup pooled THEN msg[m] ELSE ZeroMsg]

\* Release: the fields are reset and the object goes back to the pool.
ReleasedMsg(m) == [msg EXCEPT ![m] = ZeroMsg]
ReleasedPool(m) == pool \cup {m}

\* ----------------------------------------------------------- connPeer.close
\* The select of close(): done closed -> return io.EOF, default -> close.
CloseTakesDefault == ~closed["done"]

\* One close(ch) statement: a second close of a channel panics.
ClosePanics(ch) == closed[ch]
CloseStmt(ch) ==
    IF ClosePanics(ch)
    THEN /\ panic' = "close of closed channel"
         /\ UNCHANGED closed
    ELSE /\ closed' = [closed EXCEPT ![ch] = TRUE]
         /\ UNCHANGED panic

NextClosePc(p) ==
    CASE p = "close_done" -> "close_incoming"
      [] p = "close_incoming" -> "close_outgoing"

ClosePcChan(p) ==
    CASE p = "close_done" -> "done"
      [] p = "close_incoming" -> "incoming"
      [] p = "close_outgoing" -> "outgoing"

ClosePcs == {"close_done", "close_incoming", "close_outgoing"}

\* The state after Conn(c) and New(peer): both peer tasks started, nothing
\* sent or received.  `in`, `ticks` and `ops` are the budgets of the run.
\* With `connected`, the state after a Connect() by task 1 that succeeded in
\* addition: the STOMP frame written, its Message and the CONNECTED Message
\* released to the pool, the listen task started.
Start(in, ticks, ops, connected) ==
    /\ closed = [c \in Chans |-> FALSE]
    /\ panic = "none"
    /\ rd = [pc |-> "read", m |-> NoMsg, armed |-> FALSE]
    /\ inLeft = in
    /\ wr = [pc |-> "loop", m |-> NoMsg]
    /\ wbuf = IF connected THEN <<[method |-> "STOMP", tag |-> <<1, ops + 1>>, receipt |-> NoReceipt]>> ELSE <<>>
    /\ wire = <<>>
    /\ werr = FALSE
    /\ connClosed = 0
    /\ ticksLeft = ticks
    /\ msg = [m \in Msgs |-> ZeroMsg]
    /\ pool = IF connected THEN {1, 2} ELSE {}
    /\ pc = [t \in Tasks |-> "idle"]
    /\ op = [t \in Tasks |-> "none"]
    /\ tm = [t \in Tasks |-> NoMsg]
    /\ tid = [t \in Tasks |-> ""]
    /\ tch = [t \in Tasks |-> NoChan]
    /\ terr = [t \in Tasks |-> "nil"]
    /\ opsLeft = [t \in Tasks |-> ops]
    /\ subs = {}
    /\ wait = [r \in Receipts |-> NoChan]
    /\ rcbuf = {}
    /\ seq = 0
    /\ doneCh = <<>>
    /\ ls = [pc |-> IF connected THEN "recv" ELSE "off", m |-> NoMsg, ch |-> NoChan,
             late |-> FALSE]
    /\ hist = [closeOk |-> 0, closeEOF |-> 0,
               okSent |-> [t \in Tasks |-> IF connected /\ t = 1 THEN <<<<1, ops + 1>>>> ELSE <<>>],
               key |-> [t \in Tasks |-> NoReceipt],
               registered |-> {}, removed |-> {}, returned |-> {},
               disconnected |-> FALSE, ids |-> <<>>,
               connGot |-> [t \in Tasks |-> IF connected /\ t = 1 THEN "CONNECTED" ELSE "none"],
               connReads |-> [t \in Tasks |-> IF connected /\ t = 1 THEN 1 ELSE 0]]

\* ------------------------------------------------------------ caller tasks
\* What a caller task does when the operation it is in returns.
Return(t) ==
    /\ panic = "none"
    /\ pc[t] = "ret"
    /\ pc' = [pc EXCEPT ![t] = "idle"]
    /\ op' = [op EXCEPT ![t] = "none"]
    /\ tm' = [tm EXCEPT ![t] = NoMsg]
    /\ tid' = [tid EXCEPT ![t] = ""]
    /\ tch' = [tch EXCEPT ![t] = NoChan]
    /\ terr' = [terr EXCEPT ![t] = "nil"]
    /\ hist' = [hist EXCEPT !.key[t] = NoReceipt,
                            !.returned = IF op[t] = "Subscribe" THEN @ \cup {tid[t]} ELSE @,
                            !.disconnected = @ \/ op[t] = "Disconnect"]
    /\ UNCHANGED <<opsLeft, panic, peerVars, pool, clientVars>>
    /\ msg' = Collected(Referenced', pool)

\* The number of the call task t starts now (Call) or is in (InCall).
Call(t) == opsLeft[t]
InCall(t) == opsLeft[t] + 1

\* A caller task starts operation o on a Message it takes from NewMessage
\* and fills with fields f; it continues at position p.
StartWith(t, o, m, f, p) ==
    /\ panic = "none"
    /\ pc[t] = "idle"
    /\ opsLeft[t] > 0
    /\ m \in NewMessageChoices
    /\ msg' = [msg EXCEPT ![m] = f]
    /\ pool' = pool \ {m}
    /\ tm' = [tm EXCEPT ![t] = m]
    /\ op' = [op EXCEPT ![t] = o]
    /\ pc' = [pc EXCEPT ![t] = p]
    /\ opsLeft' = [opsLeft EXCEPT ![t] = @ - 1]

\* The position of a caller after sendMessage returned error e.
AfterSendMessage(o, e) ==
    CASE o = "Subscribe" -> IF e # "nil" THEN "sub_rollback" ELSE "ret"
      [] o = "Connect" -> IF e # "nil" THEN "ret" ELSE "conn_recv"
      [] o = "Disconnect" -> "close_select"
      [] OTHER -> "ret"

\* The position of a caller after c.peer.Send returned error e: Nack and a
\* direct user of the peer return it; sendMessage without a receipt returns
\* it to the operation; sendMessage with a receipt runs its deferred delete
\* on an error and waits for the receipt otherwise.
AfterSend(t, e) ==
    IF op[t] \in {"PeerSend", "Nack"} THEN "ret"
    ELSE IF tch[t] = NoChan THEN AfterSendMessage(op[t], e)
    ELSE IF e # "nil" THEN "sm_defer" ELSE "sm_wait"

\* ------------------------------------------------------------ connPeer.Send
\* The select of Send: done closed -> return io.EOF; default -> go on to the
\* channel send.
SendSeesClosed == closed["done"]

SendSelect(t) ==
    /\ panic = "none"
    /\ pc[t] = "send_select"
    /\ IF SendSeesClosed
       THEN /\ terr' = [terr EXCEPT ![t] = "EOF"]
            /\ pc' = [pc EXCEPT ![t] = AfterSend(t, "EOF")]
       ELSE /\ pc' = [pc EXCEPT ![t] = "send_chan"]
            /\ UNCHANGED terr
    /\ UNCHANGED <<op, tm, tid, tch, opsLeft, panic, peerVars, poolVars, clientVars, hist>>

\* c.outgoing <- message on a closed channel (closed before the send began, or
\* while the sender was suspended in it) panics.
SendPanic(t) ==
    /\ panic = "none"
    /\ pc[t] = "send_chan"
    /\ closed["outgoing"]
    /\ panic' = "send on closed outgoing"
    /\ UNCHANGED <<taskVars, peerVars, poolVars, clientVars, hist>>

\* The sender's half of the rendezvous on outgoing: Send returns nil.
SenderReleased(t) ==
    /\ terr' = [terr EXCEPT ![t] = "nil"]
    /\ pc' = [pc EXCEPT ![t] = AfterSend(t, "nil")]
    /\ hist' = [hist EXCEPT !.okSent[t] = Append(@, msg[tm[t]].tag)]
    /\ UNCHANGED <<op, tm, tid, tch, opsLeft>>

\* A direct user of the peer: NewMessage, then peer.Send.
PeerSend(t) ==
    /\ \E m \in Msgs :
          StartWith(t, "PeerSend", m,
                    [ZeroMsg EXCEPT !.method = "SEND", !.tag = <<t, Call(t)>>],
                    "send_select")
    /\ UNCHANGED <<tid, tch, terr, panic, peerVars, clientVars, hist>>

\* ----------------------------------------------------------- connPeer.Close
PeerClose(t) ==
    /\ panic = "none"
    /\ pc[t] = "idle"
    /\ opsLeft[t] > 0
    /\ op' = [op EXCEPT ![t] = "PeerClose"]
    /\ pc' = [pc EXCEPT ![t] = "close_select"]
    /\ opsLeft' = [opsLeft EXCEPT ![t] = @ - 1]
    /\ UNCHANGED <<tm, tid, tch, terr, panic, peerVars, poolVars, clientVars, hist>>

CloseSelect(t) ==
    /\ panic = "none"
    /\ pc[t] = "close_select"
    /\ IF CloseTakesDefault
       THEN /\ pc' = [pc EXCEPT ![t] = "close_done"]
            /\ UNCHANGED <<terr, hist>>
       ELSE /\ pc' = [pc EXCEPT ![t] = "ret"]
            /\ terr' = [terr EXCEPT ![t] = "EOF"]
            /\ hist' = [hist EXCEPT !.closeEOF = @ + 1]
    /\ UNCHANGED <<op, tm, tid, tch, opsLeft, panic, peerVars, poolVars, clientVars>>

CloseStep(t) ==
    /\ panic = "none"
    /\ pc[t] \in ClosePcs
    /\ CloseStmt(ClosePcChan(pc[t]))
    /\ IF pc[t] = "close_outgoing" /\ ~ClosePanics("outgoing")
       THEN /\ pc' = [pc EXCEPT ![t] = "ret"]
            /\ terr' = [terr EXCEPT ![t] = "nil"]
            /\ hist' = [hist EXCEPT !.closeOk = @ + 1]
       ELSE /\ pc' = [pc EXCEPT ![t] = IF ClosePanics(ClosePcChan(pc[t])) THEN @ ELSE NextClosePc(@)]
            /\ UNCHANGED <<terr, hist>>
    /\ UNCHANGED <<op, tm, tid, tch, opsLeft, rd, inLeft, wr, wbuf, wire, werr,
                   connClosed, ticksLeft, poolVars, clientVars>>

\* --------------------------------------------------------- connPeer.readInto
\* ReadBytes returned a frame: NewMessage, Parse into it.
ReaderFrame(F) ==
    /\ panic = "none"
    /\ rd.pc = "read"
    /\ inLeft > 0
    /\ \E m \in NewMessageChoices, f \in F :
          /\ msg' = [msg EXCEPT ![m] = f]
          /\ pool' = pool \ {m}
          /\ rd' = [rd EXCEPT !.pc = "select", !.m = m]
    /\ inLeft' = inLeft - 1
    /\ UNCHANGED <<closed, panic, wr, wbuf, wire, werr, connClosed, ticksLeft,
                   taskVars, clientVars, hist>>

\* ReadBytes returned a lone NUL, a heartbeat: the read deadline is set to
\* now + heartbeatWait, and the loop reads again.
ReaderHeartbeat ==
    /\ panic = "none"
    /\ rd.pc = "read"
    /\ inLeft > 0
    /\ inLeft' = inLeft - 1
    /\ rd' = [rd EXCEPT !.armed = TRUE]
    /\ UNCHANGED <<closed, panic, wr, wbuf, wire, werr, connClosed, ticksLeft,
                   poolVars, taskVars, clientVars, hist>>

\* No inbound byte for longer than the idle tolerance: with a read deadline
\* set, ReadBytes returns the timeout error; break, and the deferred
\* c.close() runs.  Without a deadline the read goes on waiting.
ReaderIdle ==
    /\ panic = "none"
    /\ rd.pc = "read"
    /\ rd.armed
    /\ rd' = [rd EXCEPT !.pc = "close_select"]
    /\ UNCHANGED <<closed, panic, inLeft, wr, wbuf, wire, werr, connClosed, ticksLeft,
                   poolVars, taskVars, clientVars, hist>>

\* ReadBytes returned an error: break, and the deferred c.close() runs.
ReaderError ==
    /\ panic = "none"
    /\ rd.pc = "read"
    /\ rd' = [rd EXCEPT !.pc = "close_select"]
    /\ UNCHANGED <<closed, panic, inLeft, wr, wbuf, wire, werr, connClosed, ticksLeft, poolVars, taskVars, clientVars, hist>>

\* The select before the send on incoming: when done is closed the break
\* leaves the select only, and the loop reads again.
ReaderSeesClosed == closed["done"]

ReaderSelect ==
    /\ panic = "none"
    /\ rd.pc = "select"
    /\ rd' = IF ReaderSeesClosed THEN [rd EXCEPT !.pc = "read", !.m = NoMsg]
             ELSE [rd EXCEPT !.pc = "send"]
    /\ UNCHANGED <<closed, panic, inLeft, wr, wbuf, wire, werr, connClosed, ticksLeft, pool, taskVars, clientVars, hist>>
    /\ msg' = Collected(Referenced', pool)

\* messages <- msg on a closed incoming channel panics.
ReaderPanic ==
    /\ panic = "none"
    /\ rd.pc = "send"
    /\ closed["incoming"]
    /\ panic' = "send on closed incoming"
    /\ UNCHANGED <<peerVars, poolVars, taskVars, clientVars, hist>>

\* The reader's deferred c.close().
ReaderCloseSelect ==
    /\ panic = "none"
    /\ rd.pc = "close_select"
    /\ IF CloseTakesDefault
       THEN /\ rd' = [rd EXCEPT !.pc = "close_done"]
            /\ UNCHANGED hist
       ELSE /\ rd' = [rd EXCEPT !.pc = "exit"]
            /\ hist' = [hist EXCEPT !.closeEOF = @ + 1]
    /\ UNCHANGED <<closed, panic, inLeft, wr, wbuf, wire, werr, connClosed, ticksLeft, poolVars, taskVars, clientVars>>

ReaderCloseStep ==
    /\ panic = "none"
    /\ rd.pc \in ClosePcs
    /\ CloseStmt(ClosePcChan(rd.pc))
    /\ IF rd.pc = "close_outgoing" /\ ~ClosePanics("outgoing")
       THEN /\ rd' = [rd EXCEPT !.pc = "exit"]
            /\ hist' = [hist EXCEPT !.closeOk = @ + 1]
       ELSE /\ rd' = [rd EXCEPT !.pc = IF ClosePanics(ClosePcChan(rd.pc)) THEN @ ELSE NextClosePc(@)]
            /\ UNCHANGED hist
    /\ UNCHANGED <<inLeft, wr, wbuf, wire, werr, connClosed, ticksLeft,
                   poolVars, taskVars, clientVars>>

\* The receiver's half of the rendezvous on incoming: the reader goes on.
ReaderReleased == rd' = [rd EXCEPT !.pc = "read", !.m = NoMsg]

\* A direct user of the peer takes a Message from Receive() and releases it.
PeerReceive ==
    /\ panic = "none"
    /\ rd.pc = "send"
    /\ ~closed["incoming"]
    /\ ReaderReleased
    /\ msg' = ReleasedMsg(rd.m)
    /\ pool' = ReleasedPool(rd.m)
    /\ UNCHANGED <<closed, panic, inLeft, wr, wbuf, wire, werr, connClosed, ticksLeft, taskVars, clientVars, hist>>

\* -------------------------------------------------------- connPeer.writeFrom
HB == [method |-> "heart-beat", tag |-> NoTag, receipt |-> NoReceipt]

\* A writer that put each frame ahead of the buffered ones would not keep
\* the order of the senders.
BufferedAhead(f) == IF werr THEN wbuf ELSE <<f>> \o wbuf

\* writeTo(c.writer, msg) and the NUL: the frame is buffered unless the
\* buffered writer has failed before (its error is sticky).
Buffered(f) == IF werr THEN wbuf ELSE Append(wbuf, f)
FrameOf(m) == [method |-> msg[m].method, tag |-> msg[m].tag, receipt |-> msg[m].receipt]

\* case <-c.done: break loop
WriterDone ==
    /\ panic = "none"
    /\ wr.pc = "loop"
    /\ closed["done"]
    /\ wr' = [wr EXCEPT !.pc = "drain"]
    /\ UNCHANGED <<closed, panic, rd, inLeft, wbuf, wire, werr, connClosed, ticksLeft, poolVars, taskVars, clientVars, hist>>

\* case <-heartbeat: a NUL byte
WriterHeartbeat ==
    /\ panic = "none"
    /\ wr.pc = "loop"
    /\ ticksLeft > 0
    /\ ticksLeft' = ticksLeft - 1
    /\ wbuf' = Buffered(HB)
    /\ UNCHANGED <<closed, panic, rd, inLeft, wr, wire, werr, connClosed,
                   poolVars, taskVars, clientVars, hist>>

\* A writer that dropped what it has buffered instead of flushing it.
FlushLost ==
    /\ ~werr
    /\ wire' = wire
    /\ wbuf' = <<>>
    /\ UNCHANGED werr

\* c.writer.Flush(): with nothing buffered it returns nil; otherwise it
\* writes the buffer to the socket, or fails after a part of it.
FlushOk ==
    /\ ~werr
    /\ wire' = wire \o wbuf
    /\ wbuf' = <<>>
    /\ UNCHANGED werr

FlushFails ==
    /\ ~werr
    /\ wbuf # <<>>
    /\ \E k \in 0..(Len(wbuf) - 1) :
          /\ wire' = wire \o SubSeq(wbuf, 1, k)
          /\ wbuf' = SubSeq(wbuf, k + 1, Len(wbuf))
    /\ werr' = TRUE

\* case <-tick: flush; a failed flush leaves the loop.
WriterTick ==
    /\ panic = "none"
    /\ wr.pc = "loop"
    /\ ticksLeft > 0
    /\ ticksLeft' = ticksLeft - 1
    /\ \/ FlushOk /\ UNCHANGED wr
       \/ FlushFails /\ wr' = [wr EXCEPT !.pc = "drain"]
    /\ UNCHANGED <<closed, panic, rd, inLeft, connClosed,
                   poolVars, taskVars, clientVars, hist>>

\* case msg, ok := <-messages with a sender waiting: the rendezvous.
WriterRecv(t) ==
    /\ panic = "none"
    /\ wr.pc \in {"loop", "drain"}
    /\ pc[t] = "send_chan"
    /\ ~closed["outgoing"]
    /\ wr' = [pc |-> IF wr.pc = "loop" THEN "write" ELSE "dwrite", m |-> tm[t]]
    /\ SenderReleased(t)
    /\ UNCHANGED <<closed, panic, rd, inLeft, wbuf, wire, werr, connClosed, ticksLeft, poolVars, clientVars>>

\* writeTo, WriteByte(0), msg.Release(), in the loop and in drain.
WriterWrite ==
    /\ panic = "none"
    /\ wr.pc \in {"write", "dwrite"}
    /\ wbuf' = Buffered(FrameOf(wr.m))
    /\ msg' = ReleasedMsg(wr.m)
    /\ pool' = ReleasedPool(wr.m)
    /\ wr' = [pc |-> IF wr.pc = "write" THEN "loop" ELSE "drain", m |-> NoMsg]
    /\ UNCHANGED <<closed, panic, rd, inLeft, wire, werr, connClosed, ticksLeft, taskVars, clientVars, hist>>

\* case msg, ok := <-messages with ok false: break loop
WriterRecvClosed ==
    /\ panic = "none"
    /\ wr.pc = "loop"
    /\ closed["outgoing"]
    /\ wr' = [wr EXCEPT !.pc = "drain"]
    /\ UNCHANGED <<closed, panic, rd, inLeft, wbuf, wire, werr, connClosed, ticksLeft, poolVars, taskVars, clientVars, hist>>

\* drain: the range over outgoing ends when it is closed; then Flush and
\* c.conn.Close().
DrainEnd ==
    /\ panic = "none"
    /\ wr.pc = "drain"
    /\ closed["outgoing"]
    /\ \/ FlushOk
       \/ FlushFails
       \/ werr /\ UNCHANGED <<wbuf, wire, werr>>
    /\ connClosed' = connClosed + 1
    /\ wr' = [wr EXCEPT !.pc = "exit"]
    /\ UNCHANGED <<closed, panic, rd, inLeft, ticksLeft,
                   poolVars, taskVars, clientVars, hist>>

\* The reader task; ReaderPanic is listed apart, by the specifications in
\* which a task other than the reader closes the peer.
ReaderNext ==
    \/ ReaderError \/ ReaderSelect \/ ReaderCloseSelect \/ ReaderCloseStep

WriterNext ==
    \/ WriterDone \/ WriterHeartbeat \/ WriterTick \/ WriterRecvClosed
    \/ WriterWrite \/ DrainEnd
    \/ \E t \in Tasks : WriterRecv(t)

SendNext(t) == SendSelect(t) \/ SendPanic(t)
CloseNext(t) == CloseSelect(t) \/ CloseStep(t)

\* The peer on its own, with tasks that use it directly.
PeerFrames == {[ZeroMsg EXCEPT !.method = "MESSAGE"]}

NextPeer ==
    \/ ReaderFrame(PeerFrames) \/ ReaderNext \/ ReaderPanic
    \/ WriterNext
    \/ PeerReceive
    \/ \E t \in Tasks :
          \/ PeerSend(t) \/ PeerClose(t)
          \/ SendNext(t) \/ CloseNext(t) \/ Return(t)

InitPeer == Start(MaxInPeer, MaxTicks, MaxOps, FALSE)

SpecPeer == InitPeer /\ [][NextPeer]_vars


\* ------------------------------------------------------- Client.sendMessage
\* The waiter channel a sendMessage call makes: one per call.
NewChan(t) == <<t, InCall(t)>>

\* Whether sendMessage installs a waiter for Message m before it transmits.
WantsWaiter(m) == msg[m].receipt # NoReceipt

\* if len(m.Receipt) == 0 { return c.peer.Send(m) }; otherwise
\* c.wait[string(m.Receipt)] = receiptc, then c.peer.Send(m).
SmEntry(t) ==
    /\ panic = "none"
    /\ pc[t] = "sm_entry"
    /\ IF WantsWaiter(tm[t])
       THEN /\ wait' = [wait EXCEPT ![msg[tm[t]].receipt] = NewChan(t)]
            /\ tch' = [tch EXCEPT ![t] = NewChan(t)]
            /\ hist' = [hist EXCEPT !.key[t] = msg[tm[t]].receipt]
       ELSE UNCHANGED <<wait, tch, hist>>
    /\ pc' = [pc EXCEPT ![t] = "send_select"]
    /\ UNCHANGED <<op, tm, tid, terr, opsLeft, panic, peerVars, poolVars,
                   subs, rcbuf, seq, doneCh, ls>>

\* select { case <-receiptc: return nil }
SmWait(t) ==
    /\ panic = "none"
    /\ pc[t] = "sm_wait"
    /\ \E k \in rcbuf :
          /\ k[1] = tch[t]
          /\ rcbuf' = rcbuf \ {k}
    /\ pc' = [pc EXCEPT ![t] = "sm_defer"]
    /\ terr' = [terr EXCEPT ![t] = "nil"]
    /\ UNCHANGED <<op, tm, tid, tch, opsLeft, panic, peerVars, poolVars,
                   subs, wait, seq, doneCh, ls, hist>>

\* The key the deferred delete(c.wait, string(m.Receipt)) removes: the
\* Receipt field of m as it is when the call returns.
DeferKey(t) == msg[tm[t]].receipt

SmDefer(t) ==
    /\ panic = "none"
    /\ pc[t] = "sm_defer"
    /\ wait' = [r \in Receipts |-> IF r = DeferKey(t) THEN NoChan ELSE wait[r]]
    /\ pc' = [pc EXCEPT ![t] = AfterSendMessage(op[t], terr[t])]
    /\ UNCHANGED <<op, tm, tid, tch, terr, opsLeft, panic, peerVars, poolVars,
                   subs, rcbuf, seq, doneCh, ls, hist>>

SendMessageNext(t) == SmEntry(t) \/ SmWait(t) \/ SmDefer(t)

\* -------------------------------------------------------- Client operations
\* m.Apply(opts...): the options are with or without WithReceipt, which sets
\* m.Receipt to a random number, here the number of the call.
ReceiptOpts == {TRUE, FALSE}
NoOpts == {FALSE}
SubIds == {"0", "1"}
MsgIds == {"m"}

\* The frame of call k of task t: method, id, WithReceipt or not.
Frame(meth, id, r, t, k) ==
    [ZeroMsg EXCEPT !.method = meth, !.id = id,
                    !.receipt = IF r THEN <<t, k>> ELSE NoReceipt,
                    !.tag = <<t, k>>]

\* Send: NewMessage, fields, Apply, sendMessage.
ClientSend(t, R) ==
    /\ \E m \in Msgs, r \in R :
          StartWith(t, "Send", m, Frame("SEND", "", r, t, Call(t)), "sm_entry")
    /\ UNCHANGED <<tid, tch, terr, panic, peerVars, clientVars, hist>>

\* SendJSON: json.Marshal fails and nothing is sent, or Send.
ClientSendJSON(t, R) ==
    /\ \/ \E m \in Msgs, r \in R :
             /\ StartWith(t, "SendJSON", m, Frame("SEND", "", r, t, Call(t)), "sm_entry")
             /\ UNCHANGED terr
       \/ /\ panic = "none"
          /\ pc[t] = "idle"
          /\ opsLeft[t] > 0
          /\ opsLeft' = [opsLeft EXCEPT ![t] = @ - 1]
          /\ op' = [op EXCEPT ![t] = "SendJSON"]
          /\ pc' = [pc EXCEPT ![t] = "ret"]
          /\ terr' = [terr EXCEPT ![t] = "json"]
          /\ UNCHANGED <<tm, poolVars>>
    /\ UNCHANGED <<tid, tch, panic, peerVars, clientVars, hist>>

ClientAck(t, R) ==
    /\ \E m \in Msgs, r \in R, id \in MsgIds :
          StartWith(t, "Ack", m, Frame("ACK", id, r, t, Call(t)), "sm_entry")
    /\ UNCHANGED <<tid, tch, terr, panic, peerVars, clientVars, hist>>

\* Nack hands its frame to c.peer.Send itself.
ClientNack(t, R) ==
    /\ \E m \in Msgs, r \in R, id \in MsgIds :
          StartWith(t, "Nack", m, Frame("NACK", id, r, t, Call(t)), "send_select")
    /\ UNCHANGED <<tid, tch, terr, panic, peerVars, clientVars, hist>>

\* incr(): under the mutex, i := c.seq; c.seq++; the decimal text of i.
Digits == <<"0", "1", "2", "3", "4", "5", "6", "7", "8", "9">>
Decimal(i) ==
    IF i < 10 THEN Digits[i + 1]
    ELSE Digits[(i \div 10) + 1] \o Digits[(i % 10) + 1]

\* A counter that incr() read and left as it was.
NotIncremented(i) == i

\* c.seq++
Incremented(i) == i + 1

SubscribeIncr(t) ==
    /\ panic = "none"
    /\ pc[t] = "idle"
    /\ opsLeft[t] > 0
    /\ opsLeft' = [opsLeft EXCEPT ![t] = @ - 1]
    /\ op' = [op EXCEPT ![t] = "Subscribe"]
    /\ tid' = [tid EXCEPT ![t] = Decimal(seq)]
    /\ seq' = Incremented(seq)
    /\ hist' = [hist EXCEPT !.ids = Append(@, Decimal(seq))]
    /\ pc' = [pc EXCEPT ![t] = "sub_new"]
    /\ UNCHANGED <<tm, tch, terr, panic, peerVars, poolVars, subs, wait, rcbuf,
                   doneCh, ls>>

\* Subscribe: NewMessage, fields, Apply.
SubscribeNew(t, R) ==
    /\ panic = "none"
    /\ pc[t] = "sub_new"
    /\ \E m \in NewMessageChoices, r \in R :
          /\ msg' = [msg EXCEPT ![m] = Frame("SUBSCRIBE", tid[t], r, t, InCall(t))]
          /\ pool' = pool \ {m}
          /\ tm' = [tm EXCEPT ![t] = m]
    /\ pc' = [pc EXCEPT ![t] = "sub_reg"]
    /\ UNCHANGED <<op, tid, tch, terr, opsLeft, panic, peerVars, clientVars, hist>>

\* c.subs[string(id)] = handler, under the mutex.
SubscribeRegister(t) ==
    /\ panic = "none"
    /\ pc[t] = "sub_reg"
    /\ subs' = subs \cup {tid[t]}
    /\ hist' = [hist EXCEPT !.registered = @ \cup {tid[t]}]
    /\ pc' = [pc EXCEPT ![t] = "sm_entry"]
    /\ UNCHANGED <<op, tm, tid, tch, terr, opsLeft, panic, peerVars, poolVars,
                   wait, rcbuf, seq, doneCh, ls>>

\* A Subscribe without the rollback would leave subs as it is.
NotRolledBack(t) == subs

\* The rollback after a failed sendMessage: delete(c.subs, string(id)).
RolledBack(t) == subs \ {tid[t]}

SubscribeRollback(t) ==
    /\ panic = "none"
    /\ pc[t] = "sub_rollback"
    /\ subs' = RolledBack(t)
    /\ pc' = [pc EXCEPT ![t] = "ret"]
    /\ UNCHANGED <<op, tm, tid, tch, terr, opsLeft, panic, peerVars, poolVars,
                   wait, rcbuf, seq, doneCh, ls, hist>>

\* An Unsubscribe that sent the frame only would leave subs as it is.
StillSubscribed(id) == subs

\* Unsubscribe: delete(c.subs, string(id)) under the mutex, then NewMessage,
\* fields, Apply, sendMessage.  The id is one a Subscribe call has returned.
Unsubscribed(id) == subs \ {id}

UnsubscribeDelete(t) ==
    /\ panic = "none"
    /\ pc[t] = "idle"
    /\ opsLeft[t] > 0
    /\ opsLeft' = [opsLeft EXCEPT ![t] = @ - 1]
    /\ op' = [op EXCEPT ![t] = "Unsubscribe"]
    /\ \E id \in hist.returned :
          /\ tid' = [tid EXCEPT ![t] = id]
          /\ subs' = Unsubscribed(id)
          /\ hist' = [hist EXCEPT !.removed = @ \cup {id}]
    /\ pc' = [pc EXCEPT ![t] = "unsub_new"]
    /\ UNCHANGED <<tm, tch, terr, panic, peerVars, poolVars, wait, rcbuf, seq,
                   doneCh, ls>>

UnsubscribeNew(t, R) ==
    /\ panic = "none"
    /\ pc[t] = "unsub_new"
    /\ \E m \in NewMessageChoices, r \in R :
          /\ msg' = [msg EXCEPT ![m] = Frame("UNSUBSCRIBE", tid[t], r, t, InCall(t))]
          /\ pool' = pool \ {m}
          /\ tm' = [tm EXCEPT ![t] = m]
    /\ pc' = [pc EXCEPT ![t] = "sm_entry"]
    /\ UNCHANGED <<op, tid, tch, terr, opsLeft, panic, peerVars, clientVars, hist>>

\* Disconnect: sendMessage(DISCONNECT), its error dropped; return peer.Close().
ClientDisconnect(t) ==
    /\ \E m \in Msgs :
          StartWith(t, "Disconnect", m, Frame("DISCONNECT", "", FALSE, t, Call(t)), "sm_entry")
    /\ UNCHANGED <<tid, tch, terr, panic, peerVars, clientVars, hist>>

\* Connect: sendMessage(STOMP); on an error return it.  A client is connected
\* once: Connect is called while no listen task runs and no Connect is under way.
ClientConnect(t, R) ==
    /\ ls.pc = "off"
    /\ \A u \in Tasks : op[u] # "Connect"
    /\ \E m \in Msgs, r \in R :
          StartWith(t, "Connect", m, Frame("STOMP", "", r, t, Call(t)), "sm_entry")
    /\ hist' = [hist EXCEPT !.connGot[t] = "none", !.connReads[t] = 0]
    /\ UNCHANGED <<tid, tch, terr, panic, peerVars, clientVars>>

\* A Connect that took any frame for the answer.
ConnectAcceptsAny(meth) == meth = meth

\* Whether Connect accepts the frame it received and starts the listen task.
ConnectAccepts(meth) == meth = "CONNECTED"

\* m, ok := <-c.peer.Receive() with a frame: the deferred m.Release(), and
\* go c.listen() when the method is CONNECTED.
ConnectRecv(t) ==
    /\ panic = "none"
    /\ pc[t] = "conn_recv"
    /\ rd.pc = "send"
    /\ ~closed["incoming"]
    /\ ReaderReleased
    /\ hist' = [hist EXCEPT !.connGot[t] = msg[rd.m].method, !.connReads[t] = @ + 1]
    /\ terr' = [terr EXCEPT ![t] = IF ConnectAccepts(msg[rd.m].method) THEN "nil" ELSE "proto"]
    /\ ls' = IF ConnectAccepts(msg[rd.m].method) THEN [ls EXCEPT !.pc = "recv"] ELSE ls
    /\ tm' = [tm EXCEPT ![t] = rd.m]
    /\ msg' = ReleasedMsg(rd.m)
    /\ pool' = ReleasedPool(rd.m)
    /\ pc' = [pc EXCEPT ![t] = "ret"]
    /\ UNCHANGED <<op, tid, tch, opsLeft, closed, panic, inLeft, wr, wbuf, wire, werr,
                   connClosed, ticksLeft, subs, wait, rcbuf, seq, doneCh>>

\* m, ok := <-c.peer.Receive() with ok false: return io.EOF.
ConnectRecvClosed(t) ==
    /\ panic = "none"
    /\ pc[t] = "conn_recv"
    /\ closed["incoming"]
    /\ hist' = [hist EXCEPT !.connGot[t] = "closed"]
    /\ terr' = [terr EXCEPT ![t] = "EOF"]
    /\ pc' = [pc EXCEPT ![t] = "ret"]
    /\ UNCHANGED <<op, tm, tid, tch, opsLeft, panic, peerVars, poolVars, clientVars>>


\* ------------------------------------------------------------ Client.listen
\* The switch of listen on the method of the frame it received.
Dispatch(meth) ==
    CASE meth = "MESSAGE" -> "handleMessage"
      [] meth = "RECEIPT" -> "handleReceipt"
      [] OTHER -> "recv"

\* m, ok := <-c.peer.Receive() with a frame.
ListenRecv ==
    /\ panic = "none"
    /\ ls.pc = "recv"
    /\ rd.pc = "send"
    /\ ~closed["incoming"]
    /\ ReaderReleased
    /\ LET p == Dispatch(msg[rd.m].method)
       IN  ls' = [pc |-> p,
                  m |-> IF p = "recv" THEN NoMsg ELSE rd.m,
                  ch |-> NoChan,
                  late |-> p = "handleMessage" /\ msg[rd.m].subs \in hist.removed]
    /\ UNCHANGED <<closed, panic, inLeft, wr, wbuf, wire, werr, connClosed, ticksLeft,
                   pool, taskVars, subs, wait, rcbuf, seq, doneCh, hist>>
    /\ msg' = Collected(Referenced', pool)

\* m, ok := <-c.peer.Receive() with ok false: c.done <- io.EOF; return.
ListenClosed ==
    /\ panic = "none"
    /\ ls.pc = "recv"
    /\ closed["incoming"]
    /\ Len(doneCh) < 1
    /\ doneCh' = Append(doneCh, "EOF")
    /\ ls' = [ls EXCEPT !.pc = "exit"]
    /\ UNCHANGED <<panic, peerVars, poolVars, taskVars, subs, wait, rcbuf, seq, hist>>

\* handleReceipt: the waiter c.wait[string(m.Receipt)], read under the mutex.
Waiter(r) == wait[r]

HandleReceipt ==
    /\ panic = "none"
    /\ ls.pc = "handleReceipt"
    /\ LET w == Waiter(msg[ls.m].receipt)
       IN  ls' = IF w = NoChan
                 THEN [pc |-> "recv", m |-> NoMsg, ch |-> NoChan, late |-> FALSE]
                 ELSE [ls EXCEPT !.pc = "push", !.ch = w]
    /\ UNCHANGED <<panic, peerVars, pool, taskVars, subs, wait, rcbuf, seq, doneCh, hist>>
    /\ msg' = Collected(Referenced', pool)

\* receiptc <- struct{}{}: the channel holds one token; with the token still
\* in it the listen task waits here.
ListenPush ==
    /\ panic = "none"
    /\ ls.pc = "push"
    /\ \A k \in rcbuf : k[1] # ls.ch
    /\ rcbuf' = rcbuf \cup {<<ls.ch, msg[ls.m].receipt>>}
    /\ ls' = [pc |-> "recv", m |-> NoMsg, ch |-> NoChan, late |-> FALSE]
    /\ UNCHANGED <<panic, peerVars, pool, taskVars, subs, wait, seq, doneCh, hist>>
    /\ msg' = Collected(Referenced', pool)

\* handleMessage: the handler c.subs[string(m.Subs)], read under the mutex.
HasHandler(s) == s \in subs

HandleMessage ==
    /\ panic = "none"
    /\ ls.pc = "handleMessage"
    /\ ls' = IF HasHandler(msg[ls.m].subs)
             THEN [ls EXCEPT !.pc = "handler"]
             ELSE [pc |-> "recv", m |-> NoMsg, ch |-> NoChan, late |-> FALSE]
    /\ UNCHANGED <<panic, peerVars, pool, taskVars, subs, wait, rcbuf, seq, doneCh, hist>>
    /\ msg' = Collected(Referenced', pool)

\* What the deferred function of listen does with the recovered value r:
\* c.done <- r.(error).  The type assertion panics on a value that is no error.
RecoverDelivers(o) == o = "panic_error"

\* handler.Handle(m): the handler returns (it has released m), or panics with
\* an error value, or panics with a value that is no error.
HandlerRun(O) ==
    /\ panic = "none"
    /\ ls.pc = "handler"
    /\ \E o \in O :
          \/ /\ o = "return"
             /\ ls' = [pc |-> "recv", m |-> NoMsg, ch |-> NoChan, late |-> FALSE]
             /\ msg' = ReleasedMsg(ls.m)
             /\ pool' = ReleasedPool(ls.m)
             /\ UNCHANGED <<doneCh, panic>>
          \/ /\ o # "return"
             /\ RecoverDelivers(o)
             /\ Len(doneCh) < 1
             /\ doneCh' = Append(doneCh, "panic value")
             /\ ls' = [ls EXCEPT !.pc = "exit"]
             /\ UNCHANGED <<poolVars, panic>>
          \/ /\ o # "return"
             /\ ~RecoverDelivers(o)
             /\ panic' = "interface conversion"
             /\ ls' = [ls EXCEPT !.pc = "crashed"]
             /\ UNCHANGED <<poolVars, doneCh>>
    /\ UNCHANGED <<peerVars, taskVars, subs, wait, rcbuf, seq, hist>>

ListenNext == ListenRecv \/ ListenClosed \/ HandleReceipt \/ ListenPush


\* ----------------------------------------------------------- Client.mu
\* The access to a field of the Client that a task makes in its next step:
\* the field, whether it writes, and whether it holds c.mu while it does.
\* (incr and the delete of Unsubscribe are the first step of their call and
\* hold c.mu.)
NoAccess == [field |-> "none", write |-> FALSE, locked |-> TRUE]

TaskAccess(t) ==
    CASE pc[t] = "sm_entry" /\ WantsWaiter(tm[t])
              -> [field |-> "wait", write |-> TRUE, locked |-> FALSE]
      [] pc[t] = "sm_defer" -> [field |-> "wait", write |-> TRUE, locked |-> FALSE]
      [] pc[t] = "sub_reg" -> [field |-> "subs", write |-> TRUE, locked |-> TRUE]
      [] pc[t] = "sub_rollback" -> [field |-> "subs", write |-> TRUE, locked |-> TRUE]
      [] OTHER -> NoAccess

ListenAccess ==
    CASE ls.pc = "handleReceipt" -> [field |-> "wait", write |-> FALSE, locked |-> TRUE]
      [] ls.pc = "handleMessage" -> [field |-> "subs", write |-> FALSE, locked |-> TRUE]
      [] OTHER -> NoAccess

\* Two accesses race: the same field, one of them a write, and not both
\* under the mutex.
Races(a, b) ==
    /\ a.field # "none"
    /\ a.field = b.field
    /\ a.write \/ b.write
    /\ ~(a.locked /\ b.locked)

DataRace ==
    \/ \E t, u \in Tasks : t # u /\ Races(TaskAccess(t), TaskAccess(u))
    \/ \E t \in Tasks : Races(TaskAccess(t), ListenAccess)

\* What a racing access to a Go map can do besides taking effect: the
\* runtime detects it and ends the program.
MapFault ==
    /\ panic = "none"
    /\ DataRace
    /\ panic' = "concurrent map access"
    /\ UNCHANGED <<peerVars, poolVars, taskVars, clientVars, hist>>

\* ------------------------------------------------------------ specifications
\* The writer task as a client sees it.  The tickers only move bytes from
\* the buffered writer to the socket, which no client operation reads, so the
\* client specifications leave them out; a failed flush sends the writer to
\* drain, where it takes frames from outgoing as the loop does.
WriterClientNext ==
    \/ WriterDone \/ WriterRecvClosed \/ WriterWrite \/ DrainEnd
    \/ \E t \in Tasks : WriterRecv(t)

\* The frames a broker sends.  It answers a frame that asks for a receipt
\* with a RECEIPT frame carrying the id (once or again), and sends no
\* RECEIPT nobody asked for.
Written == wire \o wbuf
Requested == {Written[i].receipt : i \in 1..Len(Written)} \ {NoReceipt}
ReceiptFrames == {[ZeroMsg EXCEPT !.method = "RECEIPT", !.receipt = r] : r \in Requested}
MessageFrames == {[ZeroMsg EXCEPT !.method = "MESSAGE", !.subs = s] : s \in SubIds}
HandshakeFrames ==
    {[ZeroMsg EXCEPT !.method = "CONNECTED"], [ZeroMsg EXCEPT !.method = "ERROR"]}

\* Receipts: a connected client whose callers send with and without a
\* receipt, the remote end answering with RECEIPT frames.
InitReceipt == Start(MaxIn, 0, MaxCalls, TRUE)

NextReceipt ==
    \/ ReaderFrame(ReceiptFrames) \/ ReaderNext
    \/ WriterClientNext
    \/ ListenNext
    \/ MapFault
    \/ \E t \in Tasks :
          \/ ClientSend(t, ReceiptOpts)
          \/ SendMessageNext(t) \/ SendNext(t) \/ Return(t)

SpecReceipt == InitReceipt /\ [][NextReceipt]_vars

\* The whole client: an unconnected client, every operation, the remote end
\* answering the handshake and the receipts.
InitClient == Start(MaxIn, 0, MaxCalls, FALSE)

NextClient ==
    \/ ReaderFrame(HandshakeFrames \cup ReceiptFrames)
    \/ ReaderNext \/ ReaderPanic
    \/ WriterClientNext
    \/ ListenNext
    \/ \E t \in Tasks :
          \/ ClientConnect(t, ReceiptOpts) \/ ConnectRecv(t) \/ ConnectRecvClosed(t)
          \/ ClientSend(t, ReceiptOpts) \/ ClientSendJSON(t, ReceiptOpts)
          \/ ClientAck(t, ReceiptOpts) \/ ClientNack(t, ReceiptOpts)
          \/ SubscribeIncr(t) \/ SubscribeNew(t, ReceiptOpts)
          \/ SubscribeRegister(t) \/ SubscribeRollback(t)
          \/ UnsubscribeDelete(t) \/ UnsubscribeNew(t, ReceiptOpts)
          \/ ClientDisconnect(t) \/ CloseNext(t)
          \/ SendMessageNext(t) \/ SendNext(t) \/ Return(t)

SpecClient == InitClient /\ [][NextClient]_vars

\* The peer under fair scheduling: a task that can take a step eventually
\* takes one, a send on a closed channel panics, and a read on the socket
\* the writer has closed returns an error.  What the users of the peer and
\* the remote end do (start a Send or a Close, receive, send a frame, fail
\* the connection), and the tickers, are under no obligation.
ReaderSocketClosed == connClosed > 0 /\ ReaderError

WriterFair ==
    \/ WriterDone \/ WriterRecvClosed \/ WriterWrite \/ DrainEnd
    \/ \E t \in Tasks : WriterRecv(t)

ReaderFair ==
    \/ ReaderSelect \/ ReaderCloseSelect \/ ReaderCloseStep \/ ReaderPanic
    \/ ReaderSocketClosed

InitPeerFair == Start(MaxInPeer, MaxTicks, MaxCalls, FALSE)

SpecPeerFair ==
    /\ InitPeerFair
    /\ [][NextPeer]_vars
    /\ WF_vars(WriterFair)
    /\ WF_vars(ReaderFair)
    /\ \A t \in Tasks : WF_vars(SendNext(t) \/ CloseNext(t) \/ Return(t))

\* Connecting under fair scheduling: the writer, the reader's select and
\* close, the listen task and every caller inside a call take the steps
\* they can take.  The remote end is under no obligation to send a frame or
\* to end the stream, and the user is under none to start a call.
CallFair(t) ==
    \/ SendMessageNext(t) \/ SendNext(t)
    \/ ConnectRecv(t) \/ ConnectRecvClosed(t)
    \/ Return(t)

ReaderClientFair == ReaderSelect \/ ReaderCloseSelect \/ ReaderCloseStep

InitConnect == Start(MaxIn, 0, MaxCalls, FALSE)

NextConnect ==
    \/ ReaderFrame(HandshakeFrames \cup ReceiptFrames)
    \/ ReaderNext
    \/ WriterClientNext
    \/ ListenNext
    \/ \E t \in Tasks :
          \/ ClientConnect(t, ReceiptOpts)
          \/ ClientSend(t, ReceiptOpts)
          \/ CallFair(t)

SpecConnectFair ==
    /\ InitConnect
    /\ [][NextConnect]_vars
    /\ WF_vars(WriterClientNext)
    /\ WF_vars(ReaderClientFair)
    /\ WF_vars(ListenNext)
    /\ \A t \in Tasks : WF_vars(CallFair(t))

\* The reader of a bare peer: frames that parse and frames that do not,
\* heartbeats, idle periods, read failures, a user that receives and closes.
\* Parse fails on a garbled frame and leaves the Message partly filled.
Garbled == [ZeroMsg EXCEPT !.method = "garbled"]
ReadFrames == PeerFrames \cup {Garbled}

InitRead == Start(MaxIn, 0, MaxCalls, FALSE)

NextRead ==
    \/ ReaderFrame(ReadFrames) \/ ReaderHeartbeat \/ ReaderIdle
    \/ ReaderNext \/ ReaderPanic
    \/ PeerReceive
    \/ WriterDone \/ WriterRecvClosed \/ DrainEnd
    \/ \E t \in Tasks : PeerClose(t) \/ CloseNext(t) \/ Return(t)

SpecRead == InitRead /\ [][NextRead]_vars

\* Subscriptions: a connected client whose callers subscribe and
\* unsubscribe, the remote end sending MESSAGE frames and ending the stream.
InitSubs == Start(MaxIn, 0, MaxCalls, TRUE)

HandlerOutcomes == {"return", "panic_error", "panic_other"}

NextSubs ==
    \/ ReaderFrame(MessageFrames) \/ ReaderNext
    \/ WriterClientNext
    \/ ListenRecv \/ ListenClosed \/ HandleMessage \/ HandlerRun(HandlerOutcomes)
    \/ \E t \in Tasks :
          \/ SubscribeIncr(t) \/ SubscribeNew(t, NoOpts)
          \/ SubscribeRegister(t) \/ SubscribeRollback(t)
          \/ UnsubscribeDelete(t) \/ UnsubscribeNew(t, NoOpts)
          \/ SmEntry(t) \/ SendSelect(t) \/ Return(t)

SpecSubs == InitSubs /\ [][NextSubs]_vars

\* ------------------------------------------------------------------ claims
SendPcs == {"send_select", "send_chan"}
IsPrefix(a, b) == Len(a) <= Len(b) /\ SubSeq(b, 1, Len(a)) = a

\* C1: over any Close calls, the reader's deferred close included, no close
\* panics, at most one call returns ok, a call returns stream-closed only
\* when done is closed, and the call that returned ok closed all three
\* channels.
C1_CloseIdempotent ==
    /\ panic # "close of closed channel"
    /\ hist.closeOk <= 1
    /\ hist.closeEOF > 0 => closed["done"]
    /\ hist.closeOk = 1 => \A c \in Chans : closed[c]

\* C1, the case: two closers are past the select of close() together.
C1_TwoClosers ==
    /\ rd.pc \in ClosePcs
    /\ \E t \in Tasks : pc[t] \in ClosePcs

\* C2: Send never sends on a closed channel: no sender is at the channel
\* send with outgoing closed, no Send panics, and a Send that returned
\* stream-closed did not hand its frame over.
C2_SendOnClosed ==
    /\ panic # "send on closed outgoing"
    /\ \A t \in Tasks : pc[t] = "send_chan" => ~closed["outgoing"]
    /\ \A t \in Tasks :
          (op[t] = "PeerSend" /\ pc[t] = "ret" /\ terr[t] = "EOF")
          => \A i \in 1..Len(hist.okSent[t]) : hist.okSent[t][i] # msg[tm[t]].tag

\* C2, the case: a sender is suspended on outgoing while a closer is about
\* to close it.
C2_SuspendedSender ==
    /\ \E t \in Tasks : pc[t] = "send_chan"
    /\ \/ rd.pc = "close_outgoing"
       \/ \E u \in Tasks : pc[u] = "close_outgoing"

\* A caller is suspended in sendMessage on the waiter it installed under r.
WaitingOn(t, r) == pc[t] = "sm_wait" /\ hist.key[t] = r

\* C3: receipt correlation.  A token reaches a caller's waiter only from a
\* RECEIPT frame carrying the caller's own receipt id, and when the listen
\* task handles a RECEIPT with receipt-id R while a caller waits on R, it
\* finds that caller's waiter and goes on to signal it.
C3_ReceiptCorrelation ==
    /\ [](\A k \in rcbuf : \A t \in Tasks : k[1] = tch[t] => k[2] = hist.key[t])
    /\ [][\A t \in Tasks :
            (/\ ls.pc = "handleReceipt"
             /\ ls'.pc # "handleReceipt"
             /\ WaitingOn(t, msg[ls.m].receipt))
            => (ls'.pc = "push" /\ ls'.ch = tch[t])]_vars

\* C3, the case: the listen task handles a RECEIPT for the id a caller waits
\* on while another caller waits on another id.
C3_TwoWaiters ==
    /\ ls.pc = "handleReceipt"
    /\ \E t, u \in Tasks :
          /\ t # u
          /\ WaitingOn(t, msg[ls.m].receipt)
          /\ pc[u] = "sm_wait" /\ hist.key[u] \notin {NoReceipt, hist.key[t]}

\* C4: whenever a client operation hands a frame with a non-empty Receipt
\* (method not RECEIPT) to Peer.Send, a waiter keyed by that receipt id is in
\* the wait map.
C4_WaiterBeforeSend ==
    [][\A t \in Tasks :
         (/\ pc[t] # "send_select"
          /\ pc'[t] = "send_select"
          /\ msg'[tm'[t]].receipt # NoReceipt
          /\ msg'[tm'[t]].method # "RECEIPT")
         => wait'[msg'[tm'[t]].receipt] # NoChan]_vars

\* C4, the case: a frame that carries a receipt id is at Peer.Send.
C4_ReceiptFrameAtSend ==
    \E t \in Tasks : pc[t] = "send_select" /\ msg[tm[t]].receipt # NoReceipt

\* C5: when sendMessage for a frame with receipt id R returns, the wait map
\* has no entry for R and its other entries are as they were.
C5_WaiterRemoved ==
    [][\A t \in Tasks :
         (pc[t] = "sm_defer" /\ pc'[t] # "sm_defer")
         => wait' = [r \in Receipts |-> IF r = hist.key[t] THEN NoChan ELSE wait[r]]]_vars

\* C5, the case: sendMessage is about to return after the writer released
\* the Message it sent.
C5_ReturnsAfterRelease ==
    \E t \in Tasks : pc[t] = "sm_defer" /\ hist.key[t] # NoReceipt /\ tm[t] \in pool

\* C6: Subscribe hands the SUBSCRIBE frame to the peer only after it has
\* registered the handler under its id; the rollback removes that id from
\* subs and nothing else; and after a failed Subscribe returns, subs has no
\* entry for its id.
C6_SubscribeRollback ==
    /\ [](\A t \in Tasks :
            /\ (op[t] = "Subscribe" /\ pc[t] \in SendPcs) => tid[t] \in hist.registered
            /\ (op[t] = "Subscribe" /\ pc[t] = "ret" /\ terr[t] # "nil") => tid[t] \notin subs)
    /\ [][\A t \in Tasks :
            (pc[t] = "sub_rollback" /\ pc'[t] # "sub_rollback")
            => subs' = subs \ {tid[t]}]_vars

\* C6, the case: a Subscribe whose Send failed has returned, its handler was
\* registered, and another handler is in subs.
C6_FailedSubscribe ==
    \E t \in Tasks :
       /\ op[t] = "Subscribe" /\ pc[t] = "ret" /\ terr[t] = "EOF"
       /\ tid[t] \in hist.registered
       /\ subs # {}

\* C7: the UNSUBSCRIBE frame is handed to the peer with the handler already
\* removed, and a MESSAGE frame for an id that the listen task took from
\* Receive after the id was removed never reaches a handler.
C7_UnsubscribeDrops ==
    /\ \A t \in Tasks : (op[t] = "Unsubscribe" /\ pc[t] \in SendPcs) => tid[t] \notin subs
    /\ ls.pc = "handler" => ~ls.late

\* C7, the case: the listen task holds a MESSAGE frame it took after its
\* subscription id was removed.
C7_LateMessage ==
    ls.pc = "handleMessage" /\ ls.late /\ msg[ls.m].subs \in hist.registered

\* The tags of the frames of sender t in a sequence of frames.
TagsOf(s, t) ==
    LET sel == SelectSeq(s, LAMBDA f : f.tag[1] = t)
    IN  [i \in 1..Len(sel) |-> sel[i].tag]

\* The frames written or about to be: flushed, buffered, and the one the
\* writer has taken from outgoing and is writing.
Out == wire \o (IF wr.pc \in {"write", "dwrite"} THEN Buffered(FrameOf(wr.m)) ELSE wbuf)

\* C8: per sender, the frames written (flushed, buffered, or being written)
\* are the frames whose Send returned ok, in the order of the calls, none
\* twice and none skipped, as long as no write failed; after a write failure
\* they are a prefix of them; and when the writer has ended without a write
\* failure the socket has received them all.
C8_WireOrder ==
    \A t \in Tasks :
       /\ IsPrefix(TagsOf(Out, t), hist.okSent[t])
       /\ ~werr => TagsOf(Out, t) = hist.okSent[t]
       /\ (~werr /\ wr.pc = "exit") => TagsOf(wire, t) = hist.okSent[t]

\* C8, the case: the socket has received two frames of one sender, the
\* second written by drain, with a heartbeat and a frame of another sender.
C8_TwoFramesOnWire ==
    \E t, u \in Tasks :
       /\ t # u
       /\ Len(hist.okSent[t]) = 2
       /\ TagsOf(wire, t) = hist.okSent[t]
       /\ TagsOf(wire, u) # <<>>
       /\ \E i \in 1..Len(wire) : wire[i] = HB
       /\ wr.pc = "exit"

\* C9: when the listen task has ended, exactly one terminal error is on
\* Done(): end-of-stream or the panic value; it does not end without it.
C9_ListenDelivers ==
    /\ Len(doneCh) <= 1
    /\ ls.pc \in {"exit", "crashed"} => Len(doneCh) = 1

\* C9, the case: a handler is running on the listen task.
C9_HandlerRuns == ls.pc = "handler"

\* C10: a Connect that returns success has read one frame, a CONNECTED, and
\* the listen task runs; one that read another frame returns the protocol
\* failure, one that found Receive closed returns end-of-stream, one whose
\* send failed returns that failure without a read, and in these three cases
\* no listen task was started; the listen task starts only in the step in
\* which Connect takes a CONNECTED frame.
C10_ConnectOutcome ==
    /\ [](\A t \in Tasks :
            (op[t] = "Connect" /\ pc[t] = "ret") =>
               LET g == hist.connGot[t]
                   n == hist.connReads[t]
               IN  /\ terr[t] = "nil" <=> g = "CONNECTED"
                   /\ g = "CONNECTED" => (n = 1 /\ ls.pc # "off")
                   /\ g \notin {"CONNECTED", "closed", "none"}
                         => (terr[t] = "proto" /\ n = 1 /\ ls.pc = "off")
                   /\ g = "closed" => (terr[t] = "EOF" /\ n = 0 /\ ls.pc = "off")
                   /\ g = "none" => (terr[t] = "EOF" /\ n = 0 /\ ls.pc = "off"))
    /\ [][(ls.pc = "off" /\ ls'.pc # "off")
            => \E t \in Tasks : pc[t] = "conn_recv" /\ msg[rd.m].method = "CONNECTED"]_vars

\* C10, the case: a Connect has returned success and the listen task runs,
\* after another Connect returned the protocol failure.
C10_Connected ==
    \E t, u \in Tasks :
       /\ op[t] = "Connect" /\ pc[t] = "ret" /\ terr[t] = "nil" /\ ls.pc = "recv"
       /\ hist.connGot[u] = "ERROR"


\* C11: a Disconnect that has returned has returned success, whatever the
\* state of the peer was when it was called.
C11_DisconnectOk ==
    \A t \in Tasks : (op[t] = "Disconnect" /\ pc[t] = "ret") => terr[t] = "nil"

\* C11, the case: a Disconnect is calling peer.Close() on a peer that is
\* closed already.
C11_DisconnectOnClosed ==
    \E t \in Tasks : op[t] = "Disconnect" /\ pc[t] = "close_select" /\ closed["done"]


\* C12: when the writer has closed the socket and no write failed, the
\* socket has received, per sender, every frame whose Send returned ok, the
\* DISCONNECT frame of a Disconnect included; and a Send that is issued after
\* a Disconnect has returned takes the stream-closed branch.
C12_GracefulClose ==
    /\ []((connClosed > 0 /\ ~werr) => \A t \in Tasks : TagsOf(wire, t) = hist.okSent[t])
    /\ [][\A t \in Tasks :
            (hist.disconnected /\ pc[t] = "send_select" /\ pc'[t] # "send_select")
            => (terr'[t] = "EOF" /\ pc'[t] # "send_chan")]_vars

\* C12, the case: a Disconnect on an open peer has returned, the writer has
\* closed the socket, the DISCONNECT frame is on the wire, and a later Send
\* is at its select.
C12_DisconnectOnWire ==
    /\ hist.disconnected
    /\ connClosed > 0 /\ ~werr
    /\ \E i \in 1..Len(wire) : wire[i].method = "DISCONNECT"
    /\ \E t \in Tasks : pc[t] = "send_select"


\* C13: a frame that the codec failed to parse is not delivered on the
\* Receive channel: the reader does not offer it, and no receiver takes it.
C13_ParseFailureNotDelivered ==
    /\ [](rd.pc = "send" => msg[rd.m] # Garbled)
    /\ [][(rd.pc = "send" /\ rd'.pc = "read") => msg[rd.m] # Garbled]_vars

\* C13, the case: the reader has read a frame that failed to parse.
C13_GarbledRead == rd.pc = "select" /\ msg[rd.m] = Garbled


\* C14: after a flush of the writer has failed, the peer terminates of
\* itself: eventually done is closed and the socket is closed.
C14_FlushFailureTerminates ==
    (werr /\ wr.pc = "drain") ~> (closed["done"] /\ connClosed > 0)

\* C14, the case: a flush failed in the writer's loop and the writer is in
\* drain, with the peer still open.
C14_FlushFailed == werr /\ wr.pc = "drain" /\ ~closed["done"]


\* C15: whenever the reader waits for inbound bytes on an open peer a read
\* deadline is set, so that an idle period ends the read; and the reader
\* sets it on every frame it reads.
C15_IdleDetection ==
    /\ []((rd.pc = "read" /\ ~closed["done"]) => rd.armed)
    /\ [][(rd.pc = "read" /\ rd'.pc = "select") => rd'.armed]_vars

\* C15, the case: the reader of an open peer waits for inbound bytes after
\* it has received frames only.
C15_OnlyFramesReceived ==
    rd.pc = "read" /\ inLeft = 0 /\ ~rd.armed /\ ~closed["done"]


\* The decimal texts of 0, 1, ... as they are written.
Numerals == <<"0", "1", "2", "3", "4", "5", "6", "7", "8", "9", "10", "11">>

\* C16: the identifiers incr() has returned are "0", "1", ..., in the order
\* of the calls, and no two calls returned the same identifier.
C16_IncrUnique ==
    /\ Len(hist.ids) = seq
    /\ \A i \in 1..Len(hist.ids) : i <= Len(Numerals) => hist.ids[i] = Numerals[i]
    /\ \A i, j \in 1..Len(hist.ids) : i # j => hist.ids[i] # hist.ids[j]

\* C16, the case: two callers are in Subscribe together, each with the
\* identifier incr() gave it.
C16_TwoSubscribers ==
    /\ Len(hist.ids) = 2
    /\ \E t, u \in Tasks :
          t # u /\ op[t] = "Subscribe" /\ op[u] = "Subscribe" /\ pc[t] = "sub_new" /\ pc[u] = "sub_new"


\* C17: every access to subs, wait and seq is made with the client mutex
\* held, no two tasks race on one of these fields, and the runtime never
\* finds a concurrent map access.
C17_MutexGuards ==
    /\ \A t \in Tasks : TaskAccess(t).locked
    /\ ListenAccess.locked
    /\ ~DataRace
    /\ panic # "concurrent map access"

\* C17, the case: a caller is about to write the wait map while the listen
\* task is about to read it in handleReceipt.
C17_WriterAndReader ==
    /\ ls.pc = "handleReceipt"
    /\ \E t \in Tasks : TaskAccess(t).field = "wait"


\* C18: under fair scheduling, a Connect under way returns once the peer
\* offers a CONNECTED frame on the Receive channel or that channel is
\* closed, whatever options it was called with.  (A run that the panic of
\* C2 has ended is not counted against it.)
C18_ConnectReturns ==
    \A t \in Tasks :
        (/\ op[t] = "Connect"
         /\ pc[t] # "idle"
         /\ \/ closed["incoming"]
            \/ rd.pc = "send" /\ msg[rd.m].method = "CONNECTED")
            ~> (pc[t] \in {"ret", "idle"} \/ panic # "none")

\* C18, the case: a Connect called with WithReceipt has transmitted its
\* frame and the peer offers the CONNECTED frame.
C18_ConnectedOffered ==
    \E t \in Tasks :
        /\ op[t] = "Connect"
        /\ pc[t] = "sm_wait"
        /\ rd.pc = "send"
        /\ msg[rd.m].method = "CONNECTED"


\* C19: in every interleaving of the reader with a Close by another task
\* the reader never sends on a closed incoming channel, and a reader whose
\* select finds done closed does not go on to deliver the message.
C19_NoSendOnClosedIncoming ==
    /\ [](panic # "send on closed incoming")
    /\ [][(rd.pc = "select" /\ closed["done"]) => rd'.pc # "send"]_vars

\* C19, the case: the reader has passed its select and is at the send on
\* incoming while a Close by another task is about to close that channel.
C19_CloseDuringSend ==
    /\ rd.pc = "send"
    /\ ~closed["incoming"]
    /\ \E t \in Tasks : op[t] = "PeerClose" /\ pc[t] = "close_incoming"


\* C20: under fair scheduling, once Close is called on an open peer the
\* writer leaves its loop, drains and terminates, the socket is closed
\* exactly once, and the reader terminates; the socket is never closed twice.
C20_CloseTerminates ==
    /\ (\E t \in Tasks : op[t] = "PeerClose" /\ pc[t] = "close_select" /\ ~closed["done"])
           ~> (wr.pc = "exit" /\ rd.pc = "exit" /\ connClosed = 1)
    /\ [](connClosed <= 1)

\* C20, the case: a Close called on the open peer has closed the three
\* channels and returned while both tasks were still running.
C20_CloseReturned ==
    /\ hist.closeOk = 1
    /\ \E t \in Tasks : op[t] = "PeerClose" /\ pc[t] = "ret" /\ terr[t] = "nil"
    /\ wr.pc # "exit"
    /\ rd.pc \notin ClosePcs \cup {"close_select", "exit"}

=============================================================================
